---- MODULE Spec2Model ----
(***************************************************************************)
(* A model of the tarshim repository:                                      *)
(*   - FigureDisplay (src/src/notebook_image_handling.py): a handler that  *)
(*     wipes and recreates <parent_directory>/<report_name> when it is     *)
(*     constructed and then writes numbered figure files into it;          *)
(*   - html_from_dataframe / cell_figure_mapping (src/src/tarshim.py).     *)
(***************************************************************************)
EXTENDS Integers, Sequences, FiniteSets, TLC

(***************************************************************************)
(* Bounds of the model.                                                    *)
(***************************************************************************)
\* figsave is not called any more on an instance whose counter passed this
MaxNumber == 2
\* figure objects of the plotting library
MaxFigures == 1
\* the same, for the run that takes the counter past three digits
LongNumber == 1000
\* html_from_dataframe: the rows and the columns of the table, and the
\* length of an explicit list of figure columns
MaxRows == 2
MaxCols == 2
MaxList == 2

(***************************************************************************)
(* Python values.                                                          *)
(***************************************************************************)
None == [isNone |-> TRUE, s |-> ""]
Str(s) == [isNone |-> FALSE, s |-> s]
Titles == {None, Str("X")}

Handlers == {"h1", "h2"}
Figures == 1..MaxFigures

EmptyDict == [k \in {} |-> ""]

\* dict.update: the keys of o replace or extend those of d
dict_update(d, o) ==
    [k \in DOMAIN d \cup DOMAIN o |-> IF k \in DOMAIN o THEN o[k] ELSE d[k]]

\* the defaults of line 54: dict(ha="left", ma="left", x=0, va='bottom')
default_suptitle_kwargs == [ha |-> "left", ma |-> "left", x |-> "0", va |-> "bottom"]

\* the **suptitle_kwargs a caller passes to the constructor: one key that
\* overrides a default and one that is new
CallerKwargs == [ha |-> "center", fontsize |-> "12"]

(***************************************************************************)
(* "%03d" % n : the decimal digits of n, padded on the left with zeros to  *)
(* a width of at least 3 (a minimum, never a truncation).                  *)
(***************************************************************************)
Width == 3

RECURSIVE Decimal(_)
Decimal(n) == IF n < 10 THEN <<n>> ELSE Append(Decimal(n \div 10), n % 10)

RECURSIVE ZeroPad(_, _)
ZeroPad(ds, w) == IF Len(ds) >= w THEN ds ELSE ZeroPad(<<0>> \o ds, w)

\* a format that keeps three digits only
Fmt03d_truncated(n) == ZeroPad(Decimal(n % 1000), Width)

Fmt03d(n) == ZeroPad(Decimal(n), Width)

\* the file name "figure_%03d.png" % n
figure_name(n) == [stem |-> "figure_", digits |-> Fmt03d(n), ext |-> ".png"]

\* os.path.join(os.path.abspath(parent_directory), report_name): the one
\* directory of the model
dir_name == "/cwd/figures/report"

\* os.path.join(self.dir_name, name)
path_join(d, name) == [dir |-> d, name |-> name]

(***************************************************************************)
(* State.                                                                  *)
(***************************************************************************)
VARIABLES
    dirExists,   \* does the directory dir_name exist on disk
    dirFiles,    \* its entries: name -> content
    handlers,    \* the FigureDisplay instances: h -> fields
    figs,        \* the figure objects: f -> [suptitle]
    figStack,    \* the open figures of pyplot, the active one last
    output,      \* the notebook's output stream: what display() showed last
    ret,         \* the last operation: its arguments and its result
    calls,       \* per instance, the saves that completed since construction
    sinceWipe,   \* the saves that completed since the directory was created
    lastInit,    \* the last construction that was attempted, and how it ended
    df,          \* html_from_dataframe: the table passed in
    figure_columns, \* html_from_dataframe: its figure_columns argument
    result       \* html_from_dataframe: what the last call produced

fdVars == <<dirExists, dirFiles, handlers, figs, figStack, output, ret, calls,
            sinceWipe, lastInit>>
htmlVars == <<df, figure_columns, result>>
vars == <<fdVars, htmlVars>>

NoTitle == [text |-> None, kw |-> EmptyDict]
NoFiles == [k \in {} |-> NoTitle]
NothingShown == [fig |-> -1, suptitle |-> NoTitle]
NoHandler == [alive |-> FALSE, show_title |-> FALSE, current_number |-> 0,
              suptitle_kwargs |-> EmptyDict]

\* what savefig writes for a figure: the rendering of the figure f with the
\* title it carries
Render(f, fg) == [fig |-> f, suptitle |-> fg[f].suptitle]

\* entries a directory left by an earlier session may hold
OldName == [stem |-> "notes", digits |-> <<>>, ext |-> ".txt"]
OldContent == [fig |-> 0, suptitle |-> NoTitle]
Leftovers == [k \in {OldName, figure_name(1)} |-> OldContent]

Put(d, k, v) == [x \in DOMAIN d \cup {k} |-> IF x = k THEN v ELSE d[x]]
Restrict(d, ks) == [x \in ks |-> d[x]]
Range(s) == {s[i] : i \in DOMAIN s}
Remove(s, e) == SelectSeq(s, LAMBDA x : x # e)

\* html_from_dataframe has not been called
NoTable == [columns |-> <<>>, holds |-> <<>>, nrows |-> 0]
NoArgument == [kind |-> "None", cols |-> <<>>]
NoResult == [done |-> FALSE]

InitFigureDisplay ==
    /\ dirExists \in BOOLEAN
    /\ dirFiles \in (IF dirExists THEN {NoFiles, Leftovers} ELSE {NoFiles})
    /\ handlers = [h \in Handlers |-> NoHandler]
    /\ figs = [f \in Figures |-> [suptitle |-> NoTitle]]
    /\ figStack = <<>>
    /\ output = NothingShown
    /\ ret = [op |-> "start"]
    /\ calls = [h \in Handlers |-> 0]
    /\ sinceWipe = 0
    /\ lastInit = [h |-> "none", ok |-> FALSE]

Init ==
    /\ InitFigureDisplay
    /\ df = NoTable
    /\ figure_columns = NoArgument
    /\ result = NoResult

(***************************************************************************)
(* FigureDisplay.__init__                                                  *)
(***************************************************************************)
\* shutil.rmtree(path): its possible results. A missing path raises
\* FileNotFoundError; an existing one is removed with all it holds, or the
\* removal fails part-way (a permission error) and the directory stays with
\* some of its entries.
rmtree(exists, files) ==
    IF ~exists
    THEN {[err |-> "ENOENT", exists |-> FALSE, files |-> NoFiles]}
    ELSE {[err |-> "none", exists |-> FALSE, files |-> NoFiles]}
         \cup {[err |-> "EPERM", exists |-> TRUE, files |-> Restrict(files, ks)] :
                  ks \in SUBSET DOMAIN files}

\* the errors the handler "except OSError: pass" swallows: FileNotFoundError
\* and PermissionError are both OSError
except_OSError(err) == err \in {"ENOENT", "EPERM"}

\* os.makedirs(path, exist_ok=True)
makedirs_exist_ok(exists) ==
    IF exists
    THEN {[err |-> "none", exists |-> TRUE]}
    ELSE {[err |-> "none", exists |-> TRUE], [err |-> "EACCES", exists |-> FALSE]}

\* os.makedirs(path), without exist_ok: raises FileExistsError when the path
\* exists; otherwise creates it, unless the parent cannot be written
makedirs(exists) ==
    IF exists
    THEN {[err |-> "EEXIST", exists |-> TRUE]}
    ELSE {[err |-> "none", exists |-> TRUE], [err |-> "EACCES", exists |-> FALSE]}

FigureDisplay_init(h, show_title, suptitle_kwargs) ==
    \E rm \in rmtree(dirExists, dirFiles) :
        IF rm.err # "none" /\ ~except_OSError(rm.err)
        THEN \* the removal's error leaves the constructor
             /\ dirExists' = rm.exists
             /\ dirFiles' = rm.files
             /\ ret' = [op |-> "init", h |-> h, outcome |-> "raise",
                        rmtreeErr |-> rm.err, raisedBy |-> "rmtree",
                        existed |-> dirExists, held |-> DOMAIN dirFiles]
             /\ lastInit' = [h |-> h, ok |-> FALSE]
             /\ UNCHANGED <<handlers, figs, figStack, output, calls, sinceWipe, htmlVars>>
        ELSE \E mk \in makedirs(rm.exists) :
             /\ dirExists' = mk.exists
             /\ dirFiles' = rm.files
             /\ IF mk.err # "none"
                THEN /\ ret' = [op |-> "init", h |-> h, outcome |-> "raise",
                                rmtreeErr |-> rm.err, raisedBy |-> "makedirs",
                                existed |-> dirExists, held |-> DOMAIN dirFiles]
                     /\ lastInit' = [h |-> h, ok |-> FALSE]
                     /\ UNCHANGED <<handlers, calls, sinceWipe>>
                ELSE /\ handlers' = [handlers EXCEPT ![h] =
                            [alive |-> TRUE, show_title |-> show_title,
                             current_number |-> 1,
                             suptitle_kwargs |->
                                 dict_update(default_suptitle_kwargs, suptitle_kwargs)]]
                     /\ ret' = [op |-> "init", h |-> h, outcome |-> "ok",
                                rmtreeErr |-> rm.err, raisedBy |-> "none",
                                existed |-> dirExists, held |-> DOMAIN dirFiles]
                     /\ lastInit' = [h |-> h, ok |-> TRUE]
                     /\ calls' = [calls EXCEPT ![h] = 0]
                     /\ sinceWipe' = 0
             /\ UNCHANGED <<figs, figStack, output, htmlVars>>

(***************************************************************************)
(* pyplot's figures                                                        *)
(***************************************************************************)
\* plt.figure(): a fresh figure, which becomes the active one
new_figure(f) ==
    /\ f \notin Range(figStack)
    /\ figs' = [figs EXCEPT ![f] = [suptitle |-> NoTitle]]
    /\ figStack' = Append(figStack, f)
    /\ ret' = [op |-> "figure", fig |-> f]
    /\ UNCHANGED <<dirExists, dirFiles, handlers, output, calls, sinceWipe, lastInit,
                   htmlVars>>

(***************************************************************************)
(* FigureDisplay.figsave                                                   *)
(***************************************************************************)
\* a test that forgets self.show_title
should_stamp_any(show_title, title) == title # None

\* line 72: if self.show_title == True and title is not None
should_stamp(show_title, title) == show_title = TRUE /\ title # None

\* fig.suptitle(title, **self.suptitle_kwargs)
suptitle(fg, f, title, kw) == [fg EXCEPT ![f].suptitle = [text |-> title, kw |-> kw]]

\* fig.savefig(fname, ...): fails when the directory is missing, and may
\* fail for the disk's own reasons; a failed write leaves no file
savefig(exists) == IF exists THEN {"ok", "OSError"} ELSE {"OSError"}

\* the counter advanced whatever savefig did (an increment in a finally)
number_after_always(n, res) == n + 1

\* the counter never advanced
number_after_stuck(n, res) == n

\* lines 76-77: the counter is advanced after savefig returned, so a raise
\* of savefig leaves it as it was
number_after(n, res) == IF res = "ok" THEN n + 1 ELSE n

\* plt.close(fig) left out
stack_after_open(stk, f, res) == stk

\* lines 76-78: plt.close(fig) is reached only when savefig returned
stack_after(stk, f, res) == IF res = "ok" THEN Remove(stk, f) ELSE stk

\* the body of figsave on the figure f, with pyplot's state (fg, stk) as the
\* caller left it; op names the entry point
figsave_body(op, h, f, title, fg, stk) ==
    LET self == handlers[h]
        fg1 == IF should_stamp(self.show_title, title)
               THEN suptitle(fg, f, title, self.suptitle_kwargs)
               ELSE fg
        current_figure_number == self.current_number
        name == figure_name(current_figure_number)
        fname == path_join(dir_name, name)
    IN \E res \in savefig(dirExists) :
        /\ dirFiles' = IF res = "ok" THEN Put(dirFiles, name, Render(f, fg1))
                                     ELSE dirFiles
        /\ handlers' = [handlers EXCEPT ![h].current_number =
                            number_after(current_figure_number, res)]
        /\ figs' = fg1
        /\ figStack' = stack_after(stk, f, res)
        /\ calls' = [calls EXCEPT ![h] = IF res = "ok" THEN @ + 1 ELSE @]
        /\ sinceWipe' = IF res = "ok" THEN sinceWipe + 1 ELSE sinceWipe
        /\ ret' = [op |-> op, h |-> h, fig |-> f, title |-> title,
                   n |-> current_figure_number, outcome |-> res,
                   value |-> IF res = "ok" THEN fname ELSE path_join("", name)]
        /\ UNCHANGED <<dirExists, lastInit, htmlVars>>

\* the model stops calling an instance whose counter passed the bound
Within(h, bound) == handlers[h].current_number <= bound

figsave(h, f, title) ==
    /\ handlers[h].alive
    /\ figsave_body("figsave", h, f, title, figs, figStack)
    /\ UNCHANGED output

(***************************************************************************)
(* FigureDisplay.figdisp and FigureDisplay.__call__                        *)
(***************************************************************************)
\* display(Image(fname)): the file is read from disk and shown
display_Image(files, fname) == files[fname.name]

\* the display run on what the disk held before the save
figdisp_body_stale(op, h, f, title, fg, stk) ==
    /\ figsave_body(op, h, f, title, fg, stk)
    /\ output' = IF ret'.outcome = "ok" /\ ret'.value.name \in DOMAIN dirFiles
                 THEN display_Image(dirFiles, ret'.value)
                 ELSE output

\* figdisp's two lines: fname = self.figsave(fig, title), then
\* display(Image(fname)); a raise of figsave skips the display
figdisp_body(op, h, f, title, fg, stk) ==
    /\ figsave_body(op, h, f, title, fg, stk)
    /\ output' = IF ret'.outcome = "ok" THEN display_Image(dirFiles', ret'.value)
                                        ELSE output

figdisp(h, f, title) ==
    /\ handlers[h].alive
    /\ figdisp_body("figdisp", h, f, title, figs, figStack)

\* __call__(fig, title) with a figure
call_with(h, f, title) ==
    /\ handlers[h].alive
    /\ figdisp_body("call", h, f, title, figs, figStack)

\* __call__(None, title): plt.gcf() is the active figure, or a new figure
\* when none is open
call_gcf(h, title) ==
    /\ handlers[h].alive
    /\ IF figStack # <<>>
       THEN figdisp_body("call_gcf", h, figStack[Len(figStack)], title, figs, figStack)
       ELSE \E f \in Figures :
              figdisp_body("call_gcf", h, f, title,
                           [figs EXCEPT ![f] = [suptitle |-> NoTitle]], <<f>>)

(***************************************************************************)
(* tarshim.py: cell_figure_mapping and html_from_dataframe                 *)
(***************************************************************************)
\* the bytes fig.savefig(figfile, format='png', ...) leaves in the BytesIO:
\* the PNG signature's first bytes and the figure's own data
png_bytes(fig) == <<137, 80, 78, 71, fig>>

Base64Alphabet ==
    <<"A","B","C","D","E","F","G","H","I","J","K","L","M","N","O","P",
      "Q","R","S","T","U","V","W","X","Y","Z","a","b","c","d","e","f",
      "g","h","i","j","k","l","m","n","o","p","q","r","s","t","u","v",
      "w","x","y","z","0","1","2","3","4","5","6","7","8","9","+","/">>

Sextet(i) == Base64Alphabet[i + 1]

\* base64.b64encode(bs).decode(): three bytes become four characters, the
\* last group is padded with "="
RECURSIVE b64encode(_)
b64encode(bs) ==
    IF Len(bs) = 0 THEN ""
    ELSE IF Len(bs) = 1
    THEN Sextet(bs[1] \div 4) \o Sextet((bs[1] % 4) * 16) \o "=="
    ELSE IF Len(bs) = 2
    THEN Sextet(bs[1] \div 4) \o Sextet((bs[1] % 4) * 16 + bs[2] \div 16)
         \o Sextet((bs[2] % 16) * 4) \o "="
    ELSE Sextet(bs[1] \div 4) \o Sextet((bs[1] % 4) * 16 + bs[2] \div 16)
         \o Sextet((bs[2] % 16) * 4 + bs[3] \div 64) \o Sextet(bs[3] % 64)
         \o b64encode(SubSeq(bs, 4, Len(bs)))

\* cell_figure_mapping(fig): the tag, as the pieces format() puts together
cell_figure_mapping(fig) ==
    <<"<img src=\"data:image/png;base64,", b64encode(png_bytes(fig)), "\" />">>

\* the labels of a table with two-level column labels
Labels == {<<"a", "fig">>, <<"a", "num">>, <<"fig", "num">>, <<"b", "fig">>}
\* a label no table of the model has
AbsentLabel == <<"z", "fig">>

RECURSIVE SeqsUpTo(_, _)
SeqsUpTo(S, n) ==
    IF n = 0 THEN {<<>>}
    ELSE LET shorter == SeqsUpTo(S, n - 1)
         IN shorter \cup {Append(q, x) : q \in shorter, x \in S}

NoDuplicates(q) == \A i, j \in DOMAIN q : q[i] = q[j] => i = j

\* the tables: columns with distinct labels; a column holds figures in all
\* its rows or plain values in all its rows
Tables ==
    {[columns |-> cs, holds |-> hs, nrows |-> n] :
        cs \in {q \in SeqsUpTo(Labels, MaxCols) : NoDuplicates(q)},
        hs \in SeqsUpTo({"figure", "value"}, MaxCols),
        n \in 0..MaxRows}

\* the figure_columns argument: None, 'infer', or a list of labels
Arguments ==
    {[kind |-> "None", cols |-> <<>>], [kind |-> "infer", cols |-> <<>>]}
    \cup {[kind |-> "list", cols |-> q] :
             q \in SeqsUpTo(Labels \cup {AbsentLabel}, MaxList)}

\* the figure in row r of the column at position j
cell_figure(r, j) == r * 10 + j

\* c[0] == 'fig': the first-level label
is_fig_column_first(c) == c[1] = "fig"

\* the assertion compiled away
in_columns_unchecked(c, columns) == TRUE

\* line 95: c[1] == 'fig', the second-level label (Python counts from 0)
is_fig_column(c) == c[2] = "fig"

\* line 98: assert c in df.columns
in_columns(c, columns) == c \in Range(columns)

\* df.to_html(escape=False, formatters=formatters): the columns are
\* formatted one after the other; every cell of a column with a formatter
\* is the formatter's result, every other cell the default text of its
\* value; a formatter applied to a value that is no figure raises (it has
\* no savefig). The result: rows of cells, each cell its pieces, and the
\* number of figures that were encoded on the way.
to_html(table, formatters) ==
    LET formatted(j) == table.columns[j] \in formatters
        broken == {j \in DOMAIN table.columns :
                     formatted(j) /\ table.holds[j] # "figure" /\ table.nrows > 0}
        reached == IF broken = {} THEN DOMAIN table.columns
                   ELSE {j \in DOMAIN table.columns : \A b \in broken : j < b}
        encoded == table.nrows * Cardinality({j \in reached : formatted(j)})
        cell(r, j) == IF formatted(j) THEN cell_figure_mapping(cell_figure(r, j))
                      ELSE IF table.holds[j] = "figure" THEN <<"Figure(640x480)">>
                      ELSE <<"0.5">>
    IN IF broken # {}
       THEN [done |-> TRUE, raised |-> "AttributeError", html |-> <<>>,
             encoded |-> encoded]
       ELSE [done |-> TRUE, raised |-> "none",
             html |-> [r \in 1..table.nrows |->
                          [j \in DOMAIN table.columns |-> cell(r, j)]],
             encoded |-> encoded]

\* the loop of lines 97-98: every name of an explicit list is asserted
all_asserted(arg, columns) ==
    arg.kind = "list" => \A i \in DOMAIN arg.cols : in_columns(arg.cols[i], columns)

html_from_dataframe(table, arg) ==
    LET selected ==
            IF arg.kind = "None" THEN <<>>
            ELSE IF arg.kind = "infer"
            THEN SelectSeq(table.columns, is_fig_column)
            ELSE arg.cols
    IN IF ~all_asserted(arg, table.columns)
       THEN [done |-> TRUE, raised |-> "AssertionError", html |-> <<>>,
             encoded |-> 0]
       ELSE to_html(table, Range(selected))

\* a call of html_from_dataframe on the table and the argument at hand
call_html_from_dataframe ==
    /\ ~result.done
    /\ result' = html_from_dataframe(df, figure_columns)
    /\ UNCHANGED <<df, figure_columns, fdVars>>

\* the calls of the model: any table with any argument, and no handler
InitHtml ==
    /\ InitFigureDisplay
    /\ ~dirExists
    /\ df \in Tables
    /\ Len(df.holds) = Len(df.columns)
    /\ figure_columns \in Arguments
    /\ result = NoResult

NextHtml == call_html_from_dataframe

SpecHtml == InitHtml /\ [][NextHtml]_vars

(***************************************************************************)
(* One instance at a time: every construction rebinds the same name, so    *)
(* the earlier instance is gone when the next one exists.                  *)
(***************************************************************************)
Next ==
    \/ \E st \in BOOLEAN : FigureDisplay_init("h1", st, CallerKwargs)
    \/ \E f \in Figures : new_figure(f)
    \/ \E f \in Figures, t \in Titles :
           Within("h1", MaxNumber) /\ figsave("h1", f, t)
    \/ \E f \in Figures, t \in Titles :
           Within("h1", MaxNumber) /\ figdisp("h1", f, t)
    \/ \E f \in Figures, t \in Titles :
           Within("h1", MaxNumber) /\ call_with("h1", f, t)
    \/ \E t \in Titles : Within("h1", MaxNumber) /\ call_gcf("h1", t)

Spec == Init /\ [][Next]_vars

(***************************************************************************)
(* Two instances for the same report_name and parent_directory, alive at   *)
(* the same time, saving in any interleaving.                              *)
(***************************************************************************)
NextShared ==
    \/ \E h \in Handlers : FigureDisplay_init(h, TRUE, CallerKwargs)
    \/ new_figure(1)
    \/ \E h \in Handlers : Within(h, MaxNumber) /\ figsave(h, 1, None)

SpecShared == Init /\ [][NextShared]_vars

(***************************************************************************)
(* One instance, constructed once, saving a thousand figures and more.     *)
(***************************************************************************)
NextLong ==
    \/ ~handlers["h1"].alive /\ FigureDisplay_init("h1", TRUE, CallerKwargs)
    \/ new_figure(1)
    \/ Within("h1", LongNumber) /\ figsave("h1", 1, None)

SpecLong == Init /\ [][NextLong]_vars

(***************************************************************************)
(* The properties.                                                         *)
(***************************************************************************)
SaveOps == {"figsave", "figdisp", "call", "call_gcf"}
DisplayOps == {"figdisp", "call", "call_gcf"}

\* the last operation was a save that returned
Saved == ret.op \in SaveOps /\ ret.outcome = "ok"
\* the last operation was a save whose write raised
SaveRaised == ret.op \in SaveOps /\ ret.outcome # "ok"

RECURSIVE NumeralValue(_)
NumeralValue(ds) ==
    IF ds = <<>> THEN 0
    ELSE 10 * NumeralValue(SubSeq(ds, 1, Len(ds) - 1)) + ds[Len(ds)]

\* ds is the numeral {k:03d}: decimal digits whose value is k, at least
\* three of them, and no leading zero beyond the third digit from the right
IsNumeralOf(ds, k) ==
    /\ Len(ds) >= 3
    /\ \A i \in DOMAIN ds : ds[i] \in 0..9
    /\ NumeralValue(ds) = k
    /\ Len(ds) > 3 => ds[1] # 0

\* the title options of an instance constructed with CallerKwargs
MergedKwargs == [ha |-> "center", ma |-> "left", x |-> "0", va |-> "bottom",
                 fontsize |-> "12"]

C2_Theorem ==
    (ret.op = "init" /\ ret.outcome = "ok") =>
        /\ dirExists
        /\ DOMAIN dirFiles = {}
        /\ handlers[ret.h].alive
        /\ handlers[ret.h].current_number = 1

\* a construction returned on a directory that held the second figure of an
\* earlier instance
C2_Witness ==
    /\ ret.op = "init" /\ ret.outcome = "ok"
    /\ ret.existed
    /\ figure_name(2) \in ret.held
    /\ dirExists /\ DOMAIN dirFiles = {}

\* C3, as claimed: a removal failure other than "the path does not exist"
\* leaves the constructor as the removal's own error
C3_Claim ==
    (ret.op = "init" /\ ret.rmtreeErr \notin {"none", "ENOENT"}) =>
        (ret.outcome = "raise" /\ ret.raisedBy = "rmtree")

\* C4, as claimed: every save, failed ones included, advances the counter
C4_Claim ==
    ret.op \in SaveOps => handlers[ret.h].current_number = ret.n + 1

\* C4, amended: a save that returns advances current_number by one; a save
\* whose write raises leaves current_number as it was, so the next save
\* uses the same number again
C4_Amended ==
    /\ Saved => handlers[ret.h].current_number = ret.n + 1
    /\ SaveRaised => handlers[ret.h].current_number = ret.n

\* a write raised and the counter still names the number that failed
C4_Witness ==
    /\ SaveRaised
    /\ dirExists
    /\ handlers[ret.h].current_number = ret.n
    /\ ret.n > 1

\* C5: a save stamps the title iff show_title is true and a title is given;
\* the stamp carries the merged options and is in the file that is written;
\* otherwise the figure and the file carry the title the figure had
C5_Theorem ==
    [][ret'.op \in SaveOps =>
          LET h == ret'.h
              f == ret'.fig
              t == ret'.title
              had == IF ret'.op = "call_gcf" /\ figStack = <<>>
                     THEN NoTitle ELSE figs[f].suptitle
              expected == IF handlers[h].show_title /\ t # None
                          THEN [text |-> t, kw |-> MergedKwargs]
                          ELSE had
          IN /\ figs'[f].suptitle = expected
             /\ \A g \in Figures \ {f} : figs'[g] = figs[g]
             /\ ret'.outcome = "ok" =>
                    dirFiles'[ret'.value.name].suptitle = expected]_vars

\* a save with show_title true and a title given wrote a file with the title
C5_Witness ==
    /\ Saved
    /\ handlers[ret.h].show_title
    /\ ret.title = Str("X")
    /\ dirFiles[ret.value.name].suptitle = [text |-> Str("X"), kw |-> MergedKwargs]

\* C6: figdisp and __call__ do what one figsave does (one file, named by
\* the counter, holding the figure's rendering; the counter advanced by
\* one; the figure closed), then display that file; a raise of the save
\* displays nothing; __call__ without a figure acts on the active figure
C6_Theorem ==
    [][ret'.op \in DisplayOps =>
          LET h == ret'.h
              f == ret'.fig
              n == handlers[h].current_number
              name == ret'.value.name
              written == [fig |-> f, suptitle |-> figs'[f].suptitle]
          IN /\ ret'.n = n
             /\ IsNumeralOf(name.digits, n)
             /\ (ret'.op = "call_gcf" /\ figStack # <<>>) => f = figStack[Len(figStack)]
             /\ IF ret'.outcome = "ok"
                THEN /\ handlers'[h].current_number = n + 1
                     /\ DOMAIN dirFiles' = DOMAIN dirFiles \cup {name}
                     /\ \A x \in DOMAIN dirFiles \ {name} : dirFiles'[x] = dirFiles[x]
                     /\ dirFiles'[name] = written
                     /\ f \notin Range(figStack')
                     /\ output' = written
                ELSE /\ dirFiles' = dirFiles
                     /\ handlers' = handlers
                     /\ output' = output]_vars

\* __call__ without a figure saved the second figure and shows it
C6_Witness ==
    /\ ret.op = "call_gcf" /\ ret.outcome = "ok"
    /\ ret.n = 2
    /\ output = dirFiles[figure_name(2)]
    /\ output.fig = ret.fig

\* C7, as claimed: after any save, failed ones included, the figure is closed
C7_Claim ==
    ret.op \in SaveOps => ret.fig \notin Range(figStack)

\* C7, amended: after a save that returns, the figure is closed
C7_Amended ==
    Saved => ret.fig \notin Range(figStack)

\* __call__ without a figure returned: the figure that was active is closed
C7_Witness ==
    /\ ret.op = "call_gcf" /\ ret.outcome = "ok"
    /\ ret.fig \notin Range(figStack)

\* an explicit list names a column the table does not have
NamesAbsentColumn ==
    /\ figure_columns.kind = "list"
    /\ \E i \in DOMAIN figure_columns.cols :
          \A j \in DOMAIN df.columns : df.columns[j] # figure_columns.cols[i]

\* the <img> cells of a result
ImgCells(res) ==
    {<<r, j>> \in (DOMAIN res.html) \X (DOMAIN df.columns) :
        res.html[r][j][1] = "<img src=\"data:image/png;base64,"}

\* C8: an explicit list with a name the table lacks raises before anything
\* is rendered: no HTML, no figure encoded
C8_Theorem ==
    (result.done /\ NamesAbsentColumn) =>
        /\ result.raised = "AssertionError"
        /\ result.html = <<>>
        /\ result.encoded = 0

\* such a call was made on a table with rows, with a present figure column
\* named before the absent one
C8_Witness ==
    /\ result.done /\ NamesAbsentColumn
    /\ df.nrows > 0
    /\ Len(figure_columns.cols) = 2
    /\ figure_columns.cols[2] = AbsentLabel
    /\ \E j \in DOMAIN df.columns :
          df.columns[j] = figure_columns.cols[1] /\ df.holds[j] = "figure"
    /\ result.raised = "AssertionError"

\* C9: with 'infer' the HTML that is returned has an <img> in every row of
\* every column whose second-level label is "fig" and in no other cell;
\* with None it has no <img> at all
C9_Theorem ==
    (result.done /\ result.raised = "none") =>
        /\ DOMAIN result.html = 1..df.nrows
        /\ figure_columns.kind = "infer" =>
              ImgCells(result) =
                 {<<r, j>> \in (1..df.nrows) \X (DOMAIN df.columns) :
                     df.columns[j][2] = "fig"}
        /\ figure_columns.kind = "None" => ImgCells(result) = {}
        /\ result.encoded = Cardinality(ImgCells(result))

\* 'infer' on a table of two rows with a "fig" column and another column
C9_Witness ==
    /\ result.done /\ result.raised = "none"
    /\ figure_columns.kind = "infer"
    /\ df.nrows = 2
    /\ Len(df.columns) = 2
    /\ df.columns[1][2] = "fig" /\ df.columns[2][2] # "fig"
    /\ Cardinality(ImgCells(result)) = 2

\* h is the only instance, and no construction was attempted after its own
Alone(h) ==
    /\ lastInit.ok /\ lastInit.h = h
    /\ \A g \in Handlers \ {h} : ~handlers[g].alive

\* C10: every instance counts from 1 on its own; while one instance is
\* alone, the directory holds as many files as saves returned; with two
\* instances it never holds more, and it can hold fewer (C10_Witness)
C10_Theorem ==
    /\ \A h \in Handlers : handlers[h].alive => handlers[h].current_number = calls[h] + 1
    /\ (\E h \in Handlers : Alone(h)) => Cardinality(DOMAIN dirFiles) = sinceWipe
    /\ lastInit.ok => Cardinality(DOMAIN dirFiles) <= sinceWipe

\* both instances are alive, a save just replaced a file the other instance
\* had written, and the directory holds fewer files than saves returned
C10_Witness ==
    /\ \A h \in Handlers : handlers[h].alive
    /\ lastInit.ok
    /\ Saved
    /\ \E g \in Handlers \ {ret.h} : handlers[g].current_number > ret.n
    /\ Cardinality(DOMAIN dirFiles) < sinceWipe

====
